---- MODULE Spec2Model ----
(***************************************************************************)
(* Model of the template expression language of rum/rwf:                   *)
(*   rum/src/view/template/language/expression.rs  (Expression: term,      *)
(*   parse, evaluate) and rum/src/view/template/language/op.rs (Op).       *)
(* The lexer (Token, Value), Term, Context and the ordering of Op are not  *)
(* part of the sources at hand; they are modelled from the specification   *)
(* and marked as such where they are defined.                              *)
(***************************************************************************)
EXTENDS Integers, Sequences, FiniteSets, TLC

(***************************************************************************)
(* Bounds of the model.                                                    *)
(***************************************************************************)
\* longest arbitrary token stream handed to the parser
MaxTokens == 4
\* largest number of binary operators in an operator chain
MaxOps == 3
\* largest number of elements of a list literal
MaxList == 2

(***************************************************************************)
(* Value (lexer): a dynamically typed value.  One record shape for every   *)
(* variant: n carries the integer, the boolean (0/1) or the float in       *)
(* hundredths, s the string, items the list elements.                      *)
(***************************************************************************)
Integer(i) == [variant |-> "Integer", n |-> i, s |-> "", items |-> <<>>]

Float(h) == [variant |-> "Float", n |-> h, s |-> "", items |-> <<>>]

Boolean(b) == [variant |-> "Boolean", n |-> IF b THEN 1 ELSE 0, s |-> "", items |-> <<>>]

String(str) == [variant |-> "String", n |-> 0, s |-> str, items |-> <<>>]

List(vs) == [variant |-> "List", n |-> 0, s |-> "", items |-> vs]

\* Value::truthy: zero and empty are false, a Boolean is itself
truthy(v) ==
    CASE v.variant = "Boolean" -> v.n = 1
      [] v.variant = "Integer" -> v.n # 0
      [] v.variant = "Float" -> v.n # 0
      [] v.variant = "String" -> v.s # ""
      [] OTHER -> v.items # <<>>

\* position of a variant in the enum, the order of values of unlike variants
VariantRank(v) ==
    CASE v.variant = "Integer" -> 0
      [] v.variant = "Float" -> 1
      [] v.variant = "Boolean" -> 2
      [] v.variant = "String" -> 3
      [] OTHER -> 4

\* Value's `<`: by payload within a variant, by variant otherwise
ValueLt(l, r) ==
    IF l.variant = r.variant
    THEN l.n < r.n
    ELSE VariantRank(l) < VariantRank(r)

(***************************************************************************)
(* Token (lexer).  One record shape: the payload of Token::Value is value, *)
(* that of Token::Variable is name.                                        *)
(***************************************************************************)
NoValue == Integer(0)

Tok(ty) == [type |-> ty, value |-> NoValue, name |-> ""]

TValue(v) == [type |-> "Value", value |-> v, name |-> ""]

TVariable(nm) == [type |-> "Variable", value |-> NoValue, name |-> nm]

BlockEnd == Tok("BlockEnd")

(***************************************************************************)
(* Op (op.rs).                                                             *)
(***************************************************************************)
Ops == {"Not", "And", "Or", "Add", "Sub", "Mult", "Div", "Mod", "Equals",
        "NotEquals", "GreaterThan", "GreaterEqualThan", "LessThan",
        "LessEqualThan"}

None == "None"

\* impl From<Token> for Option<Op>: the arm `_ => return None` takes every
\* token that is not listed, the arithmetic ones included
from_token(token) ==
    CASE token.type = "Not" -> "Not"
      [] token.type = "And" -> "And"
      [] token.type = "Or" -> "Or"
      [] token.type = "Equals" -> "Equals"
      [] token.type = "NotEquals" -> "NotEquals"
      [] token.type = "GreaterThan" -> "GreaterThan"
      [] token.type = "GreaterEqualThan" -> "GreaterEqualThan"
      [] token.type = "LessThan" -> "LessThan"
      [] token.type = "LessEqualThan" -> "LessEqualThan"
      [] OTHER -> None

\* Op::binary
binary(op) == op # "Not"

\* precedence rank of an operator, loosest first
precedence(op) ==
    CASE op = "Or" -> 1
      [] op = "And" -> 2
      [] op \in {"Equals", "NotEquals", "LessThan", "LessEqualThan",
                 "GreaterThan", "GreaterEqualThan"} -> 3
      [] op \in {"Add", "Sub"} -> 4
      [] op \in {"Mult", "Div", "Mod"} -> 5
      [] OTHER -> 6

\* `second_op < op` in parse: second_op binds tighter than op
op_lt(second_op, op) == precedence(second_op) > precedence(op)

(***************************************************************************)
(* Expression (expression.rs): the tree.                                   *)
(***************************************************************************)
Constant(v) == [node |-> "Term", kind |-> "Constant", value |-> v, name |-> ""]

Variable(nm) == [node |-> "Term", kind |-> "Variable", value |-> NoValue, name |-> nm]

Unary(op, operand) == [node |-> "Unary", op |-> op, operand |-> operand]

Binary(left, op, right) == [node |-> "Binary", left |-> left, op |-> op, right |-> right]

ListExpr(terms) == [node |-> "List", terms |-> terms]

(***************************************************************************)
(* Results of the parser: Ok(tree) with the tokens left in the iterator,   *)
(* or Err(Error::Eof) / Err(Error::ExpressionSyntax(token)).               *)
(***************************************************************************)
Ok(e, rest) == [ok |-> TRUE, expr |-> e, rest |-> rest]

Eof == [ok |-> FALSE, err |-> "Eof", token |-> Tok("")]

ExpressionSyntax(token) == [ok |-> FALSE, err |-> "ExpressionSyntax", token |-> token]

(***************************************************************************)
(* Expression::term, the `[` arm: the loop that reads list elements.       *)
(***************************************************************************)
RECURSIVE term_list(_, _)
\* term_list that peeks at the closing bracket and leaves it in the iterator
term_list_peek(iter, terms) ==
    IF iter = <<>> THEN Eof
    ELSE LET next == Head(iter) IN
         CASE next.type = "SquareBracketEnd" -> Ok(ListExpr(terms), iter)
           [] next.type = "Comma" -> term_list(Tail(iter), terms)
           [] next.type = "Value" ->
                term_list(Tail(iter), Append(terms, Constant(next.value)))
           [] next.type = "Variable" ->
                term_list(Tail(iter), Append(terms, Variable(next.name)))
           [] OTHER -> ExpressionSyntax(next)

term_list(iter, terms) ==
    IF iter = <<>> THEN Eof
    ELSE LET next == Head(iter) IN
         CASE next.type = "SquareBracketEnd" -> Ok(ListExpr(terms), Tail(iter))
           [] next.type = "Comma" -> term_list(Tail(iter), terms)
           [] next.type = "Value" ->
                term_list(Tail(iter), Append(terms, Constant(next.value)))
           [] next.type = "Variable" ->
                term_list(Tail(iter), Append(terms, Variable(next.name)))
           [] OTHER -> ExpressionSyntax(next)

(***************************************************************************)
(* Expression::term, the `(` arm: the loop that counts brackets and        *)
(* collects the tokens of the group.  The result carries the collected     *)
(* tokens in expr and the iterator after the closing bracket in rest.      *)
(***************************************************************************)
RECURSIVE term_group(_, _, _)
term_group(iter, count, expr) ==
    IF count = 0 THEN Ok(expr, iter)
    ELSE IF iter = <<>> THEN Eof
    ELSE LET next == Head(iter) IN
         CASE next.type = "RoundBracketStart" ->
                term_group(Tail(iter), count + 1, Append(expr, next))
           [] next.type = "RoundBracketEnd" ->
                IF count - 1 > 0
                THEN term_group(Tail(iter), count - 1, Append(expr, next))
                ELSE term_group(Tail(iter), count - 1, expr)
           [] next.type = "BlockEnd" -> ExpressionSyntax(next)
           [] OTHER -> term_group(Tail(iter), count, Append(expr, next))

(***************************************************************************)
(* Expression::term and Expression::parse.                                 *)
(***************************************************************************)
RECURSIVE term(_), parse(_)
term(iter) ==
    IF iter = <<>> THEN Eof
    ELSE LET next == Head(iter)
             inner == term(Tail(iter))
         IN
         CASE next.type = "Not" ->
                IF inner.ok THEN Ok(Unary("Not", inner.expr), inner.rest) ELSE inner
           [] next.type = "Minus" ->
                IF inner.ok THEN Ok(Unary("Sub", inner.expr), inner.rest) ELSE inner
           [] next.type = "Plus" ->
                IF inner.ok THEN Ok(Unary("Add", inner.expr), inner.rest) ELSE inner
           [] next.type = "Variable" -> Ok(Variable(next.name), Tail(iter))
           [] next.type = "Value" -> Ok(Constant(next.value), Tail(iter))
           [] next.type = "SquareBracketStart" -> term_list(Tail(iter), <<>>)
           [] next.type = "RoundBracketStart" ->
                LET group == term_group(Tail(iter), 1, <<>>) IN
                IF ~group.ok THEN group
                ELSE LET sub == parse(group.expr) IN
                     IF sub.ok THEN Ok(sub.expr, group.rest) ELSE sub
           [] OTHER -> ExpressionSyntax(next)

parse(iter) ==
    LET left == term(iter) IN
    IF ~left.ok THEN left
    ELSE IF left.rest = <<>> THEN Eof
    ELSE LET op == from_token(Head(left.rest)) IN
         IF op = None THEN Ok(left.expr, left.rest)
         ELSE LET right == term(Tail(left.rest)) IN
              IF ~right.ok THEN right
              ELSE IF right.rest = <<>> \/ Head(right.rest).type = "BlockEnd"
              THEN Ok(Binary(left.expr, op, right.expr), right.rest)
              ELSE LET second_op == from_token(Head(right.rest)) IN
                   IF second_op = None THEN ExpressionSyntax(Head(right.rest))
                   ELSE LET right2 == parse(Tail(right.rest)) IN
                        IF ~right2.ok THEN right2
                        ELSE IF op_lt(second_op, op)
                        THEN Ok(Binary(left.expr, op,
                                       Binary(right.expr, second_op, right2.expr)),
                                right2.rest)
                        ELSE Ok(Binary(Binary(left.expr, op, right.expr),
                                       second_op, right2.expr),
                                right2.rest)

(***************************************************************************)
(* Results of the evaluator: Ok(value), Err(error), or the crash of        *)
(* todo!().                                                                *)
(***************************************************************************)
OkValue(v) == [kind |-> "ok", value |-> v]

UndefinedVariable(nm) == [kind |-> "err", err |-> "UndefinedVariable", name |-> nm]

TypeError == [kind |-> "err", err |-> "TypeError", name |-> ""]

Panic == [kind |-> "panic"]

\* Term::evaluate: a constant is its value, a variable is looked up in the
\* context and its absence is an error
term_evaluate(t, context) ==
    IF t.kind = "Constant" THEN OkValue(t.value)
    ELSE IF t.name \in DOMAIN context THEN OkValue(context[t.name])
    ELSE UndefinedVariable(t.name)

\* evaluate_binary whose NotEquals arm is a copy of the Equals arm
evaluate_binary_ne_as_eq(op, left, right) ==
    CASE op = "Equals" -> OkValue(Boolean(left = right))
      [] op = "NotEquals" -> OkValue(Boolean(left = right))
      [] op = "LessThan" -> OkValue(Boolean(ValueLt(left, right)))
      [] op = "LessEqualThan" -> OkValue(Boolean(ValueLt(left, right) \/ left = right))
      [] op = "GreaterThan" -> OkValue(Boolean(ValueLt(right, left)))
      [] op = "GreaterEqualThan" -> OkValue(Boolean(ValueLt(right, left) \/ left = right))
      [] op = "And" -> OkValue(Boolean(truthy(left) /\ truthy(right)))
      [] op = "Or" -> OkValue(Boolean(truthy(left) \/ truthy(right)))
      [] OTHER -> Panic

\* evaluate_binary whose And and Or arms look at the left operand only
evaluate_binary_left_only(op, left, right) ==
    CASE op = "Equals" -> OkValue(Boolean(left = right))
      [] op = "NotEquals" -> OkValue(Boolean(left # right))
      [] op = "LessThan" -> OkValue(Boolean(ValueLt(left, right)))
      [] op = "LessEqualThan" -> OkValue(Boolean(ValueLt(left, right) \/ left = right))
      [] op = "GreaterThan" -> OkValue(Boolean(ValueLt(right, left)))
      [] op = "GreaterEqualThan" -> OkValue(Boolean(ValueLt(right, left) \/ left = right))
      [] op = "And" -> OkValue(Boolean(truthy(left) /\ truthy(left)))
      [] op = "Or" -> OkValue(Boolean(truthy(left) \/ truthy(left)))
      [] OTHER -> Panic

\* Op::evaluate_binary
evaluate_binary(op, left, right) ==
    CASE op = "Equals" -> OkValue(Boolean(left = right))
      [] op = "NotEquals" -> OkValue(Boolean(left # right))
      [] op = "LessThan" -> OkValue(Boolean(ValueLt(left, right)))
      [] op = "LessEqualThan" -> OkValue(Boolean(ValueLt(left, right) \/ left = right))
      [] op = "GreaterThan" -> OkValue(Boolean(ValueLt(right, left)))
      [] op = "GreaterEqualThan" -> OkValue(Boolean(ValueLt(right, left) \/ left = right))
      [] op = "And" -> OkValue(Boolean(truthy(left) /\ truthy(right)))
      [] op = "Or" -> OkValue(Boolean(truthy(left) \/ truthy(right)))
      [] OTHER -> Panic

\* Op::evaluate_unary: Not negates the truthiness, Sub negates a number,
\* Add is the identity on a number
evaluate_unary(op, operand) ==
    CASE op = "Not" -> OkValue(Boolean(~truthy(operand)))
      [] op = "Sub" /\ operand.variant \in {"Integer", "Float"} ->
           OkValue([operand EXCEPT !.n = 0 - operand.n])
      [] op = "Add" /\ operand.variant \in {"Integer", "Float"} -> OkValue(operand)
      [] OTHER -> TypeError

(***************************************************************************)
(* Expression::evaluate.  evaluate_terms is the loop of the List arm: it   *)
(* pushes the value of each term in turn and returns at the first error.   *)
(***************************************************************************)
RECURSIVE evaluate(_, _), evaluate_terms(_, _, _)
\* evaluate_terms that skips a term that fails instead of returning its error
evaluate_terms_skip(terms, context, list) ==
    IF terms = <<>> THEN OkValue(List(list))
    ELSE LET v == evaluate(Head(terms), context) IN
         IF v.kind # "ok" THEN evaluate_terms(Tail(terms), context, list)
         ELSE evaluate_terms(Tail(terms), context, Append(list, v.value))

evaluate_terms(terms, context, list) ==
    IF terms = <<>> THEN OkValue(List(list))
    ELSE LET v == evaluate(Head(terms), context) IN
         IF v.kind # "ok" THEN v
         ELSE evaluate_terms(Tail(terms), context, Append(list, v.value))

\* evaluate that short-circuits And and Or on the left operand
evaluate_short_circuit(e, context) ==
    CASE e.node = "Term" -> term_evaluate(e, context)
      [] e.node = "Binary" ->
           LET left == evaluate(e.left, context) IN
           IF left.kind # "ok" THEN left
           ELSE IF e.op = "And" /\ ~truthy(left.value) THEN OkValue(Boolean(FALSE))
           ELSE IF e.op = "Or" /\ truthy(left.value) THEN OkValue(Boolean(TRUE))
           ELSE LET right == evaluate(e.right, context) IN
                IF right.kind # "ok" THEN right
                ELSE evaluate_binary(e.op, left.value, right.value)
      [] e.node = "Unary" ->
           LET operand == evaluate(e.operand, context) IN
           IF operand.kind # "ok" THEN operand
           ELSE evaluate_unary(e.op, operand.value)
      [] OTHER -> evaluate_terms(e.terms, context, <<>>)

evaluate(e, context) ==
    CASE e.node = "Term" -> term_evaluate(e, context)
      [] e.node = "Binary" ->
           LET left == evaluate(e.left, context) IN
           IF left.kind # "ok" THEN left
           ELSE LET right == evaluate(e.right, context) IN
                IF right.kind # "ok" THEN right
                ELSE evaluate_binary(e.op, left.value, right.value)
      [] e.node = "Unary" ->
           LET operand == evaluate(e.operand, context) IN
           IF operand.kind # "ok" THEN operand
           ELSE evaluate_unary(e.op, operand.value)
      [] OTHER -> evaluate_terms(e.terms, context, <<>>)


(***************************************************************************)
(* Inputs: the token streams the tokenizer hands to the parser (the block  *)
(* start already skipped), and the contexts of an evaluation.              *)
(***************************************************************************)
\* every sequence over S of length lo..hi
SeqsOf(S, lo, hi) == UNION {[1..n -> S] : n \in lo..hi}

Primaries == {TValue(Integer(1)), TValue(Boolean(FALSE)), TVariable("a")}

\* binary operator tokens used in operator chains
ChainOps == {Tok("Or"), Tok("And"), Tok("Equals"), Tok("Plus")}

\* t1 op1 t2 ... opn t(n+1), without the block end
ChainBodies(lo, hi) ==
    {[i \in 1..(2 * n + 1) |-> IF i % 2 = 1 THEN ps[(i + 1) \div 2] ELSE os[i \div 2]] :
        <<n, ps, os>> \in UNION {{n} \X [1..(n + 1) -> Primaries] \X [1..n -> ChainOps] :
                                  n \in lo..hi}}

Chains == {Append(c, BlockEnd) : c \in ChainBodies(1, MaxOps)}

\* a prefix operator in front of the first primary of a one-operator chain
PrefixOps == {Tok("Not"), Tok("Minus"), Tok("Plus")}

Prefixed == {<<p>> \o c : p \in PrefixOps, c \in {Append(b, BlockEnd) : b \in ChainBodies(1, 1)}}

\* c with the tokens i..j put in round brackets
Wrap(c, i, j) ==
    SubSeq(c, 1, i - 1) \o <<Tok("RoundBracketStart")>> \o SubSeq(c, i, j)
        \o <<Tok("RoundBracketEnd")>> \o SubSeq(c, j + 1, Len(c))

GroupOps == {Tok("And"), Tok("Equals"), Tok("Plus")}

GroupBodies ==
    {[i \in 1..(2 * n + 1) |-> IF i % 2 = 1 THEN ps[(i + 1) \div 2] ELSE os[i \div 2]] :
        <<n, ps, os>> \in UNION {{n} \X [1..(n + 1) -> {TValue(Integer(1)), TVariable("a")}]
                                      \X [1..n -> GroupOps] : n \in 0..2}}

\* a primary, or a run of a chain, in round brackets, once or twice
Grouped ==
    LET once == {Wrap(c, i, j) : <<c, i, j>> \in
                    {x \in GroupBodies \X (1..5) \X (1..5) :
                        /\ x[2] % 2 = 1 /\ x[3] % 2 = 1
                        /\ x[2] <= x[3] /\ x[3] <= Len(x[1])}}
        twice == {Wrap(c, 1, Len(c)) : c \in {g \in once : Len(g) <= 5}}
    IN {Append(g, BlockEnd) : g \in once \cup twice}

ListElements == {TValue(Integer(1)), TValue(String("hello")), TVariable("a")}

\* [ e1 , ... , en ] %>
ListLiteral(es) ==
    LET RECURSIVE items(_)
        items(i) == IF i > Len(es) THEN <<>>
                    ELSE (IF i > 1 THEN <<Tok("Comma")>> ELSE <<>>) \o <<es[i]>> \o items(i + 1)
    IN <<Tok("SquareBracketStart")>> \o items(1) \o <<Tok("SquareBracketEnd"), BlockEnd>>

Lists == {ListLiteral(es) : es \in SeqsOf(ListElements, 0, MaxList)}

\* the alphabet of the arbitrary token streams
Alphabet == {TValue(Integer(1)), TVariable("a"), Tok("Not"), Tok("Plus"), Tok("Equals"),
             Tok("RoundBracketStart"), Tok("RoundBracketEnd"),
             Tok("SquareBracketStart"), Tok("SquareBracketEnd"), Tok("Comma"), BlockEnd}

Streams == SeqsOf(Alphabet, 1, MaxTokens)

\* the token streams of the tests of expression.rs
\* <% 1 == 2 %>
TestIfConst1 == <<TValue(Integer(1)), Tok("Equals"), TValue(Integer(2)), BlockEnd>>

\* <% 1 && 1 %>
TestIfConst2 == <<TValue(Integer(1)), Tok("And"), TValue(Integer(1)), BlockEnd>>

\* <% [1, 2, "hello", 3.13, variable] %>
TestList ==
    <<Tok("SquareBracketStart"), TValue(Integer(1)), Tok("Comma"), TValue(Integer(2)),
      Tok("Comma"), TValue(String("hello")), Tok("Comma"), TValue(Float(313)),
      Tok("Comma"), TVariable("variable"), Tok("SquareBracketEnd"), BlockEnd>>

\* <% 2 * 2 + 3 * 5 %>
TestOpPrecedence ==
    <<TValue(Integer(2)), Tok("Mult"), TValue(Integer(2)), Tok("Plus"),
      TValue(Integer(3)), Tok("Mult"), TValue(Integer(5)), BlockEnd>>

\* <% !false == true && true %>
TestUnary ==
    <<Tok("Not"), TValue(Boolean(FALSE)), Tok("Equals"), TValue(Boolean(TRUE)),
      Tok("And"), TValue(Boolean(TRUE)), BlockEnd>>

\* <% ((1 + 2) + (-1 - -1)) * 5 + (25 - 5) %>
TestParenthesis ==
    <<Tok("RoundBracketStart"), Tok("RoundBracketStart"), TValue(Integer(1)), Tok("Plus"),
      TValue(Integer(2)), Tok("RoundBracketEnd"), Tok("Plus"), Tok("RoundBracketStart"),
      Tok("Minus"), TValue(Integer(1)), Tok("Minus"), Tok("Minus"), TValue(Integer(1)),
      Tok("RoundBracketEnd"), Tok("RoundBracketEnd"), Tok("Mult"), TValue(Integer(5)),
      Tok("Plus"), Tok("RoundBracketStart"), TValue(Integer(25)), Tok("Minus"),
      TValue(Integer(5)), Tok("RoundBracketEnd"), BlockEnd>>

TestInputs == {TestIfConst1, TestIfConst2, TestList, TestOpPrecedence, TestUnary,
               TestParenthesis}

\* a `!` where a binary operator is expected, in front of a second operator
Misplaced ==
    {<<p, Tok("Not"), q, o, r, BlockEnd>> :
        <<p, q, o, r>> \in Primaries \X Primaries \X {Tok("And"), Tok("Equals")} \X Primaries}

Inputs ==
    Chains \cup Prefixed \cup Grouped \cup Lists \cup Streams \cup Misplaced \cup TestInputs

ContextValues == {Integer(1), Boolean(FALSE)}

\* Context: the variables that are bound, with their values
Contexts == UNION {[S -> ContextValues] : S \in SUBSET {"a", "variable"}}

(***************************************************************************)
(* The pipeline of `impl Evaluate for &str`: the tokens are parsed, and    *)
(* the tree, when there is one, is evaluated in a context.                 *)
(***************************************************************************)
VARIABLES tokens, pc, parsed, context, value

\* the operands Op::evaluate_binary is applied to, and its result per operator
VARIABLES operands, results

\* the number of a secure id, the nonce drawn for it, the id, the string handed
\* to decrypt_number and what decrypt_number made of it
VARIABLES number, nonce, secure_id, input, decrypted, cpc

\* the time, the response a controller built, the request it answers and what
\* Response::from_request returned
VARIABLES clock, response, request, returned, rpc

\* one connection of Server::launch: the handlers, the requests the client sends,
\* how many of them were read, the local `found` and the responses written
VARIABLES handlers, stream, served, found, sent, spc

templateVars == <<tokens, pc, parsed, context, value>>

opVars == <<operands, results>>

cryptoVars == <<number, nonce, secure_id, input, decrypted, cpc>>

responseVars == <<clock, response, request, returned, rpc>>

serverVars == <<handlers, stream, served, found, sent, spc>>

vars == <<templateVars, opVars, cryptoVars, responseVars, serverVars>>

NotParsed == [ok |-> FALSE, err |-> "", token |-> Tok("")]

NoResult == [kind |-> ""]

\* Context::default()
EmptyContext == [nm \in {} |-> NoValue]

\* no operator applied
NoResults == [o \in {} |-> NoResult]

OpIdle == operands = <<NoValue, NoValue>> /\ results = NoResults

CryptoIdle ==
    /\ number = 0
    /\ nonce = <<>>
    /\ secure_id = <<>>
    /\ input = <<>>
    /\ decrypted = NoResult
    /\ cpc = "idle"

\* Option<Session>: None, and Some(session)
NoSession == [some |-> FALSE, id |-> 0, expiration |-> 0]

Session(id, expiration) == [some |-> TRUE, id |-> id, expiration |-> expiration]

\* Response::new()
new == [code |-> 200, cookies |-> {}, session |-> NoSession]

ResponseIdle ==
    /\ clock = 0
    /\ response = new
    /\ request = [session |-> NoSession]
    /\ returned = NoResult
    /\ rpc = "idle"

ServerIdle ==
    /\ handlers = <<>>
    /\ stream = <<>>
    /\ served = 0
    /\ found = FALSE
    /\ sent = <<>>
    /\ spc = "idle"

Init ==
    /\ tokens \in Inputs
    /\ pc = "tokens"
    /\ parsed = NotParsed
    /\ context = EmptyContext
    /\ value = NoResult
    /\ OpIdle
    /\ CryptoIdle
    /\ ResponseIdle
    /\ ServerIdle

\* let expr = Expression::parse(&mut tokens.into_iter().peekable())
Parse ==
    /\ pc = "tokens"
    /\ parsed' = parse(tokens)
    /\ pc' = "parsed"
    /\ UNCHANGED <<tokens, context, value>>
    /\ UNCHANGED <<opVars, cryptoVars, responseVars, serverVars>>

\* expr.evaluate(context), reached when parse returned Ok
Evaluate(c) ==
    /\ pc = "parsed"
    /\ parsed.ok
    /\ context' = c
    /\ value' = evaluate(parsed.expr, c)
    /\ pc' = "evaluated"
    /\ UNCHANGED <<tokens, parsed>>
    /\ UNCHANGED <<opVars, cryptoVars, responseVars, serverVars>>

Next == Parse \/ \E c \in Contexts : Evaluate(c)

Spec == Init /\ [][Next]_vars

(***************************************************************************)
(* Op::evaluate_binary on its own: operators are applied, one after the    *)
(* other, to a pair of values.                                             *)
(***************************************************************************)
\* largest number of operators applied to one pair of operands
MaxApplied == 2

Values == {Integer(0), Integer(1), Integer(2), Float(0), Float(313),
           Boolean(FALSE), Boolean(TRUE), String(""), String("hello"),
           List(<<>>), List(<<Integer(1)>>)}

TemplateIdle ==
    /\ tokens = <<>>
    /\ pc = "idle"
    /\ parsed = NotParsed
    /\ context = EmptyContext
    /\ value = NoResult

OpInit ==
    /\ operands \in Values \X Values
    /\ results = NoResults
    /\ TemplateIdle
    /\ CryptoIdle
    /\ ResponseIdle
    /\ ServerIdle

\* op.evaluate_binary(&left, &right)
EvaluateBinary(op) ==
    /\ op \notin DOMAIN results
    /\ Cardinality(DOMAIN results) < MaxApplied
    /\ results' = [o \in DOMAIN results \cup {op} |->
                       IF o = op THEN evaluate_binary(op, operands[1], operands[2])
                       ELSE results[o]]
    /\ UNCHANGED operands
    /\ UNCHANGED <<templateVars, cryptoVars, responseVars, serverVars>>

OpNext == \E op \in Ops : EvaluateBinary(op)

SpecOp == OpInit /\ [][OpNext]_vars

(***************************************************************************)
(* Secure ids (rwf/src/crypto.rs).  A str is the sequence of its bytes:    *)
(* "0".."9", "a".."f" and the other one-byte characters stand for          *)
(* themselves, "e1" and "e2" are the first and the second byte of a        *)
(* two-byte character.                                                     *)
(***************************************************************************)
HexDigits == <<"0", "1", "2", "3", "4", "5", "6", "7", "8", "9",
               "a", "b", "c", "d", "e", "f">>

IsHexDigit(c) == \E d \in 1..16 : HexDigits[d] = c

DigitValue(c) == (CHOOSE d \in 1..16 : HexDigits[d] = c) - 1

\* `{:02x}` of a byte
hex(b) == <<HexDigits[(b \div 16) + 1], HexDigits[(b % 16) + 1]>>

RECURSIVE join(_, _)
join(parts, sep) ==
    IF parts = <<>> THEN <<>>
    ELSE IF Len(parts) = 1 THEN parts[1]
    ELSE parts[1] \o sep \o join(Tail(parts), sep)

\* format!("{:02x?}", bytes): [de, ad, 00]
format(bytes) ==
    <<"[">> \o join([i \in 1..Len(bytes) |-> hex(bytes[i])], <<",", " ">>) \o <<"]">>

\* str::split(", "): the pieces between the occurrences of the separator
split(str) ==
    LET seps == {k \in 1..(Len(str) - 1) : str[k] = "," /\ str[k + 1] = " "}
        sep(i) == IF i = 0 THEN -1
                  ELSE IF i > Cardinality(seps) THEN Len(str) + 1
                  ELSE CHOOSE k \in seps : Cardinality({j \in seps : j < k}) = i - 1
    IN [i \in 1..(Cardinality(seps) + 1) |-> SubSeq(str, sep(i - 1) + 2, sep(i) - 1)]

\* i64::to_be_bytes: the two's complement of n, most significant byte first
RECURSIVE to_be_bytes(_, _)
to_be_bytes(n, width) ==
    IF width = 0 THEN <<>>
    ELSE Append(to_be_bytes((n - (n % 256)) \div 256, width - 1), n % 256)

\* i64::from_be_bytes
RECURSIVE from_be_bytes(_)
from_be_bytes(bytes) ==
    IF Len(bytes) = 1
    THEN (IF bytes[1] >= 128 THEN bytes[1] - 256 ELSE bytes[1])
    ELSE from_be_bytes(SubSeq(bytes, 1, Len(bytes) - 1)) * 256 + bytes[Len(bytes)]

\* the numbers that are made into secure ids
Numbers == {-2345, -1, 0, 1, 2345, 2147483647}

\* nonce(): 96 / 8 random bytes
NonceLen == 12

Nonces == {[i \in 1..NonceLen |-> 0], [i \in 1..NonceLen |-> 255],
           [i \in 1..NonceLen |-> (37 * i) % 256]}

\* the size of the authentication tag of AES-128-GCM-SIV
TagLen == 16

\* Aes128GcmSiv::encrypt under secure_id_key: the masked data and a tag
aes_encrypt(aes_nonce, data) ==
    [i \in 1..(Len(data) + TagLen) |->
        IF i <= Len(data)
        THEN (data[i] + aes_nonce[((i - 1) % NonceLen) + 1] + 7) % 256
        ELSE (3 * data[((i - 1) % Len(data)) + 1]
                + aes_nonce[((i - 1) % NonceLen) + 1] + i) % 256]

\* the plaintexts ever encrypted under secure_id_key
Plaintexts == {to_be_bytes(n, 8) : n \in Numbers}

OkBytes(bytes) == [kind |-> "ok", bytes |-> bytes]

OkNumber(n) == [kind |-> "ok", number |-> n]

AesError == [kind |-> "err", err |-> "AesError"]

Generic == [kind |-> "err", err |-> "incorrect secure id format"]

\* Aes128GcmSiv::decrypt: the plaintext when the ciphertext is authentic, that
\* is, when it is the encryption of a plaintext under this key and nonce
aes_decrypt(aes_nonce, ciphertext) ==
    LET authentic == {d \in Plaintexts : aes_encrypt(aes_nonce, d) = ciphertext}
    IN IF authentic = {} THEN AesError ELSE OkBytes(CHOOSE d \in authentic : TRUE)

encrypt_number(n, nonce_bytes) ==
    LET data == to_be_bytes(n, 8)
        ciphertext == aes_encrypt(nonce_bytes, data)
        bytes == ciphertext \o nonce_bytes
        encrypted == format(bytes)
        parts == split(SubSeq(encrypted, 2, Len(encrypted) - 1))
        part_size == Len(parts) \div 4
        uuid == [i \in 1..4 |->
                    join(SubSeq(parts, (i - 1) * part_size + 1,
                                (i - 1) * part_size + part_size), <<>>)]
    IN join(uuid, <<"-">>)

\* str::replace("-", "")
remove_dashes(str) == SelectSeq(str, LAMBDA c : c # "-")

\* str::is_char_boundary at the byte offset k
is_char_boundary(str, k) == k = 0 \/ k = Len(str) \/ (k < Len(str) /\ str[k + 1] # "e2")

\* u8::from_str_radix(.., 16).unwrap_or(0) of a slice of two bytes: a sign `+`
\* is accepted in front of one digit, everything that does not parse is 0
from_str_radix_or_0(slice) ==
    IF IsHexDigit(slice[1]) /\ IsHexDigit(slice[2])
    THEN 16 * DigitValue(slice[1]) + DigitValue(slice[2])
    ELSE IF slice[1] = "+" /\ IsHexDigit(slice[2]) THEN DigitValue(slice[2])
    ELSE 0

decrypt_number(str) ==
    LET s == remove_dashes(str) IN
    IF Len(s) % 2 # 0 THEN Generic
    ELSE IF \E i \in 0..(Len(s) \div 2) : ~is_char_boundary(s, 2 * i) THEN Panic
    ELSE LET bytes == [i \in 1..(Len(s) \div 2) |->
                          from_str_radix_or_0(SubSeq(s, 2 * i - 1, 2 * i))]
         IN IF Len(bytes) < 12 THEN Generic
            ELSE LET ciphertext == SubSeq(bytes, 1, Len(bytes) - NonceLen)
                     aes_nonce == SubSeq(bytes, Len(bytes) - NonceLen + 1, Len(bytes))
                     plaintext == aes_decrypt(aes_nonce, ciphertext)
                 IN IF plaintext.kind # "ok" THEN plaintext
                    ELSE IF Len(plaintext.bytes) # 8 THEN Generic
                    ELSE OkNumber(from_be_bytes(plaintext.bytes))

\* what a client may send back in place of a secure id
\* the bytes k, k + 1 of str replaced by the pair
Replace(str, k, pair) == SubSeq(str, 1, k - 1) \o pair \o SubSeq(str, k + 2, Len(str))

\* the two-byte character put in front of the byte k of str
Insert(str, k) == SubSeq(str, 1, k - 1) \o <<"e1", "e2">> \o SubSeq(str, k, Len(str))

\* the hexadecimal digit after c
NextDigit(c) == HexDigits[((DigitValue(c) + 1) % 16) + 1]

Presented(id) ==
    IF id = <<>> THEN {} ELSE
    {id}
    \cup {Replace(id, k, <<"z", "z">>) : k \in {j \in 1..(Len(id) - 1) : id[j] # "-" /\ id[j + 1] # "-"}}
    \cup {[id EXCEPT ![k] = NextDigit(id[k])] : k \in {j \in 1..Len(id) : id[j] # "-"}}
    \cup {Insert(id, k) : k \in 1..4}
    \cup {SubSeq(id, 1, Len(id) - 1), SubSeq(id, 1, 22), <<"s", "d", "f">>}

TemplateAndOpIdle == TemplateIdle /\ OpIdle

CryptoInit ==
    /\ number \in Numbers
    /\ nonce \in Nonces
    /\ secure_id = <<>>
    /\ input = <<>>
    /\ decrypted = NoResult
    /\ cpc = "number"
    /\ TemplateAndOpIdle
    /\ ResponseIdle
    /\ ServerIdle

\* let encrypted = encrypt_number(n).unwrap()
EncryptNumber ==
    /\ cpc = "number"
    /\ secure_id' = encrypt_number(number, nonce)
    /\ cpc' = "encrypted"
    /\ UNCHANGED <<number, nonce, input, decrypted>>
    /\ UNCHANGED <<templateVars, opVars, responseVars, serverVars>>

\* a string comes back: the secure id or something made from it
Present(str) ==
    /\ cpc = "encrypted"
    /\ input' = str
    /\ cpc' = "presented"
    /\ UNCHANGED <<number, nonce, secure_id, decrypted>>
    /\ UNCHANGED <<templateVars, opVars, responseVars, serverVars>>

\* decrypt_number(&input)
DecryptNumber ==
    /\ cpc = "presented"
    /\ decrypted' = decrypt_number(input)
    /\ cpc' = "decrypted"
    /\ UNCHANGED <<number, nonce, secure_id, input>>
    /\ UNCHANGED <<templateVars, opVars, responseVars, serverVars>>

CryptoNext ==
    \/ EncryptNumber
    \/ \E str \in Presented(secure_id) : Present(str)
    \/ DecryptNumber

SpecCrypto == CryptoInit /\ [][CryptoNext]_vars

(***************************************************************************)
(* Response::from_request (rwf/src/http/response.rs).                      *)
(***************************************************************************)
\* the times of the clock and of the expiration of a session
MaxTime == 3

\* get_config().general.session_duration()
SessionDuration == 2

SessionIds == {1, 2}

Sessions == {Session(id, expiration) : id \in SessionIds, expiration \in 0..MaxTime}

\* Session::anonymous(): a session of no user
anonymous(now) == Session(0, now + SessionDuration)

\* Session::expired
expired(session, now) == session.expiration < now

\* Session::renew
renew(session, now, duration) == [session EXCEPT !.expiration = now + duration]

SessionCookie(session) == [name |-> "rwf_session", session |-> session]

\* Cookies::add_session: the session cookie is set, in place of the one there was
add_session(cookies, session) ==
    {cookie \in cookies : cookie.name # "rwf_session"} \cup {SessionCookie(session)}

OkResponse(self) == [kind |-> "ok", response |-> self]

ErrResponse == [kind |-> "err", err |-> "Error"]

\* serialized: Cookies::add_session returned Ok
from_request(self, req, now, serialized) ==
    LET first == IF ~self.session.some /\ ~req.session.some
                 THEN [self EXCEPT !.session = anonymous(now)]
                 ELSE self
    IN IF first.session.some
       THEN IF serialized
            THEN OkResponse([first EXCEPT !.cookies = add_session(@, first.session)])
            ELSE ErrResponse
       ELSE IF req.session.some /\ ~expired(req.session, now)
       THEN IF serialized
            THEN LET session == renew(req.session, now, SessionDuration)
                 IN OkResponse([first EXCEPT !.cookies = add_session(@, session),
                                             !.session = session])
            ELSE ErrResponse
       ELSE OkResponse(first)

TemplateOpCryptoIdle == TemplateAndOpIdle /\ CryptoIdle

ResponseInit ==
    /\ clock \in 0..MaxTime
    /\ response \in {[new EXCEPT !.session = session] : session \in {NoSession} \cup Sessions}
    /\ request \in {[session |-> session] : session \in {NoSession} \cup Sessions}
    /\ returned = NoResult
    /\ rpc = "response"
    /\ TemplateOpCryptoIdle
    /\ ServerIdle

\* response.from_request(&request)
FromRequest(serialized) ==
    /\ rpc = "response"
    /\ returned' = from_request(response, request, clock, serialized)
    /\ rpc' = "returned"
    /\ UNCHANGED <<clock, response, request>>
    /\ UNCHANGED <<templateVars, opVars, cryptoVars, serverVars>>

ResponseNext == \E serialized \in BOOLEAN : FromRequest(serialized)

SpecResponse == ResponseInit /\ [][ResponseNext]_vars

(***************************************************************************)
(* Server::launch (rum/src/http/server.rs): the task of one connection.    *)
(***************************************************************************)
MaxHandlers == 2

MaxRequests == 3

HandlerPaths == {"/a", "/b"}

RequestPaths == {"/a", "/b", "/c"}

\* Path::matches
matches(path, handler_path) == path = handler_path

\* the response of the handler h to the request i
Handled(i, h) == [request |-> i, code |-> 200, handler |-> h]

\* Response::not_found()
not_found(i) == [request |-> i, code |-> 404, handler |-> 0]

ServerInit ==
    /\ handlers \in UNION {[1..n -> HandlerPaths] : n \in 0..MaxHandlers}
    /\ stream \in UNION {[1..n -> RequestPaths] : n \in 0..MaxRequests}
    /\ served = 0
    /\ found = FALSE
    /\ sent = <<>>
    /\ spc = "connected"
    /\ TemplateOpCryptoIdle
    /\ ResponseIdle

\* one turn of the loop of the connection: a request is read, every handler
\* whose path matches answers it, and Not Found is sent when `found` is not set
Serve ==
    /\ spc = "connected"
    /\ served < Len(stream)
    /\ LET i == served + 1
           matching == SelectSeq([h \in 1..Len(handlers) |-> h],
                                 LAMBDA h : matches(stream[i], handlers[h]))
           found_after == found \/ matching # <<>>
       IN /\ served' = i
          /\ found' = found_after
          /\ sent' = sent \o [k \in 1..Len(matching) |-> Handled(i, matching[k])]
                          \o (IF ~found_after THEN <<not_found(i)>> ELSE <<>>)
    /\ UNCHANGED <<handlers, stream, spc>>
    /\ UNCHANGED <<templateVars, opVars, cryptoVars, responseVars>>

\* Request::read returns Err: the client is gone and the task returns
Disconnect ==
    /\ spc = "connected"
    /\ spc' = "disconnected"
    /\ UNCHANGED <<handlers, stream, served, found, sent>>
    /\ UNCHANGED <<templateVars, opVars, cryptoVars, responseVars>>

ServerNext == Serve \/ Disconnect

SpecServer == ServerInit /\ [][ServerNext]_vars


(***************************************************************************)
(* Vocabulary of the properties.                                           *)
(***************************************************************************)
\* the operator a binary operator token stands for
OpOf(token) ==
    CASE token.type = "Plus" -> "Add"
      [] token.type = "Minus" -> "Sub"
      [] token.type = "Mult" -> "Mult"
      [] token.type = "Div" -> "Div"
      [] token.type = "Mod" -> "Mod"
      [] token.type = "Not" -> None
      [] OTHER -> from_token(token)

IsBinaryOp(token) == OpOf(token) # None

IsPrimary(token) == token.type \in {"Value", "Variable"}

\* the leaf a literal or variable token parses to
Leaf(token) ==
    IF token.type = "Value" THEN Constant(token.value) ELSE Variable(token.name)

\* t1 op1 t2 ... opn t(n+1) %>, n >= 1
IsChain(ts) ==
    /\ Len(ts) >= 4
    /\ Len(ts) % 2 = 0
    /\ ts[Len(ts)] = BlockEnd
    /\ \A i \in 1..(Len(ts) - 1) :
          IF i % 2 = 1 THEN IsPrimary(ts[i]) ELSE IsBinaryOp(ts[i])

\* the parser has returned
Parsed == pc # "tokens"

\* the evaluator has returned
Evaluated == pc = "evaluated"

(***************************************************************************)
(* C1.  An input `a op1 b op2 c %>` parses to Binary(a, op1,               *)
(* Binary(b, op2, c)) when op2 has the higher precedence and to            *)
(* Binary(Binary(a, op1, b), op2, c) otherwise, and `2 * 2 + 3 * 5`        *)
(* evaluates to Integer(19).                                               *)
(***************************************************************************)
C1_TwoOperators ==
    /\ (Parsed /\ IsChain(tokens) /\ Len(tokens) = 6) =>
          LET a == Leaf(tokens[1])
              b == Leaf(tokens[3])
              c == Leaf(tokens[5])
              op1 == OpOf(tokens[2])
              op2 == OpOf(tokens[4])
          IN parsed = Ok(IF precedence(op2) > precedence(op1)
                         THEN Binary(a, op1, Binary(b, op2, c))
                         ELSE Binary(Binary(a, op1, b), op2, c),
                         <<BlockEnd>>)
    /\ (Parsed /\ tokens = TestOpPrecedence) => parsed.ok /\ parsed.rest = <<BlockEnd>>
    /\ (Evaluated /\ tokens = TestOpPrecedence) => value = OkValue(Integer(19))

(***************************************************************************)
(* C2.  A chain of primaries and binary operators of any length parses to  *)
(* the tree of a precedence-climbing, left-associative parser with the     *)
(* same precedence order.  Climb is that parser; the property is stated    *)
(* for the chains all of whose operators from_token knows.                 *)
(***************************************************************************)
RECURSIVE Climb(_, _, _, _), ClimbRight(_, _, _, _)
Climb(ts, lhs, pos, min) ==
    IF pos > Len(ts) \/ ~IsBinaryOp(ts[pos]) THEN [expr |-> lhs, pos |-> pos]
    ELSE IF precedence(OpOf(ts[pos])) < min THEN [expr |-> lhs, pos |-> pos]
    ELSE LET op == OpOf(ts[pos])
             rhs == ClimbRight(ts, Leaf(ts[pos + 1]), pos + 2, precedence(op))
         IN Climb(ts, Binary(lhs, op, rhs.expr), rhs.pos, min)

ClimbRight(ts, rhs, pos, rank) ==
    IF pos > Len(ts) \/ ~IsBinaryOp(ts[pos]) THEN [expr |-> rhs, pos |-> pos]
    ELSE IF precedence(OpOf(ts[pos])) <= rank THEN [expr |-> rhs, pos |-> pos]
    ELSE LET inner == Climb(ts, rhs, pos, rank + 1)
         IN ClimbRight(ts, inner.expr, inner.pos, rank)

PrecedenceClimbing(ts) == Climb(ts, Leaf(ts[1]), 2, 0).expr

KnownChain(ts) ==
    IsChain(ts) /\ \A i \in 1..Len(ts) : IsBinaryOp(ts[i]) => from_token(ts[i]) # None

C2_ChainsAsPrecedenceClimbing ==
    (Parsed /\ KnownChain(tokens)) =>
        parsed = Ok(PrecedenceClimbing(tokens), <<BlockEnd>>)


(***************************************************************************)
(* C3.  A parenthesized group is parsed on its own and used as one         *)
(* operand of the operators around it, at any depth: `z op2 (x op1 y)`     *)
(* parses to Binary(z, op2, Binary(x, op1, y)), a group in a group parses  *)
(* like the group, and `((1 + 2) + (-1 - -1)) * 5 + (25 - 5)` evaluates to *)
(* Integer(35).                                                            *)
(***************************************************************************)
LeftBracket == Tok("RoundBracketStart")

RightBracket == Tok("RoundBracketEnd")

\* z op2 ( x op1 y ) %>
IsGroupOnRight(ts) ==
    /\ Len(ts) = 8
    /\ IsPrimary(ts[1]) /\ IsBinaryOp(ts[2]) /\ ts[3] = LeftBracket
    /\ IsPrimary(ts[4]) /\ IsBinaryOp(ts[5]) /\ IsPrimary(ts[6])
    /\ ts[7] = RightBracket /\ ts[8] = BlockEnd

\* ( ( x op1 y ) ) %>
IsGroupInGroup(ts) ==
    /\ Len(ts) = 8
    /\ ts[1] = LeftBracket /\ ts[2] = LeftBracket
    /\ IsPrimary(ts[3]) /\ IsBinaryOp(ts[4]) /\ IsPrimary(ts[5])
    /\ ts[6] = RightBracket /\ ts[7] = RightBracket /\ ts[8] = BlockEnd

C3_GroupIsOnePrimary ==
    /\ (Parsed /\ IsGroupOnRight(tokens)) =>
          parsed = Ok(Binary(Leaf(tokens[1]), OpOf(tokens[2]),
                             Binary(Leaf(tokens[4]), OpOf(tokens[5]), Leaf(tokens[6]))),
                      <<BlockEnd>>)
    /\ (Parsed /\ IsGroupInGroup(tokens)) =>
          parsed = Ok(Binary(Leaf(tokens[3]), OpOf(tokens[4]), Leaf(tokens[5])),
                      <<BlockEnd>>)
    /\ (Parsed /\ tokens = TestParenthesis) => parsed.ok /\ parsed.rest = <<BlockEnd>>
    /\ (Evaluated /\ tokens = TestParenthesis) => value = OkValue(Integer(35))

(***************************************************************************)
(* C4.  A prefix operator wraps only the primary that follows it:          *)
(* `!a op b` parses to Binary(Unary(Not, a), op, b), likewise for unary    *)
(* `-` and `+`, and `!false == true && true` evaluates to Boolean(true).   *)
(***************************************************************************)
PrefixOp(token) ==
    CASE token.type = "Not" -> "Not"
      [] token.type = "Minus" -> "Sub"
      [] token.type = "Plus" -> "Add"
      [] OTHER -> None

\* p a op b %>, p a prefix operator
IsPrefixed(ts) ==
    /\ Len(ts) = 5
    /\ PrefixOp(ts[1]) # None
    /\ IsPrimary(ts[2]) /\ IsBinaryOp(ts[3]) /\ IsPrimary(ts[4])
    /\ ts[5] = BlockEnd

C4_PrefixBindsTightest ==
    /\ (Parsed /\ IsPrefixed(tokens)) =>
          parsed = Ok(Binary(Unary(PrefixOp(tokens[1]), Leaf(tokens[2])),
                             OpOf(tokens[3]), Leaf(tokens[4])),
                      <<BlockEnd>>)
    /\ (Evaluated /\ tokens = TestUnary) => value = OkValue(Boolean(TRUE))

(***************************************************************************)
(* C5.  A primary that no operator follows is the whole expression: a      *)
(* lone literal or variable, and a parenthesized group whose content is    *)
(* one primary, parse to that primary.                                     *)
(***************************************************************************)
\* x %>
IsLonePrimary(ts) == Len(ts) = 2 /\ IsPrimary(ts[1]) /\ ts[2] = BlockEnd

\* ( x ) %>
IsLoneGroup(ts) ==
    /\ Len(ts) = 4
    /\ ts[1] = LeftBracket /\ IsPrimary(ts[2]) /\ ts[3] = RightBracket
    /\ ts[4] = BlockEnd

C5_LonePrimary ==
    /\ (Parsed /\ IsLonePrimary(tokens)) => parsed = Ok(Leaf(tokens[1]), <<BlockEnd>>)
    /\ (Parsed /\ IsLoneGroup(tokens)) => parsed = Ok(Leaf(tokens[2]), <<BlockEnd>>)

(***************************************************************************)
(* C6.  Malformed input never yields a tree: a stream with a round bracket *)
(* that is not closed before the block end or the end of the stream, with  *)
(* a binary operator that has no right operand, or with a list that is not *)
(* terminated, makes parse return an error.                                *)
(***************************************************************************)
\* the tokens in front of the first block end
Block(ts) ==
    LET ends == {i \in 1..Len(ts) : ts[i] = BlockEnd}
    IN IF ends = {} THEN ts
       ELSE SubSeq(ts, 1, (CHOOSE i \in ends : \A j \in ends : i <= j) - 1)

Count(ts, ty) == Cardinality({i \in 1..Len(ts) : ts[i].type = ty})

UnclosedBracket(ts) ==
    Count(Block(ts), "RoundBracketStart") > Count(Block(ts), "RoundBracketEnd")

TrailingOperator(ts) ==
    LET b == Block(ts) IN Len(b) >= 2 /\ IsBinaryOp(b[Len(b)])

UnterminatedList(ts) ==
    LET b == Block(ts) IN
    \E i \in 1..Len(b) :
        /\ b[i].type = "SquareBracketStart"
        /\ \A j \in (i + 1)..Len(b) : b[j].type # "SquareBracketEnd"

Malformed(ts) == UnclosedBracket(ts) \/ TrailingOperator(ts) \/ UnterminatedList(ts)

C6_MalformedIsAnError ==
    (Parsed /\ Malformed(tokens)) =>
        ~parsed.ok /\ parsed.err \in {"Eof", "ExpressionSyntax"}

(***************************************************************************)
(* C7.  Trailing garbage is a syntax error: a primary followed by a token  *)
(* that is neither a binary operator nor the block end makes parse return  *)
(* ExpressionSyntax for that token.                                        *)
(***************************************************************************)
TrailingGarbage(ts) ==
    /\ Len(ts) >= 2
    /\ IsPrimary(ts[1])
    /\ ~IsBinaryOp(ts[2]) /\ ts[2] # BlockEnd /\ ts[2].type # "Not"

C7_TrailingGarbageIsAnError ==
    (Parsed /\ TrailingGarbage(tokens)) => parsed = ExpressionSyntax(tokens[2])


(***************************************************************************)
(* C8.  Parsing a list literal consumes the tokens through its `]` and no  *)
(* more: when parse succeeds on `[ e1, ..., en ] %>`, what is left in the  *)
(* iterator is the block end alone, and the tree is the list of the        *)
(* elements.                                                               *)
(***************************************************************************)
\* [ elements and commas ] %>
IsListLiteral(ts) ==
    /\ Len(ts) >= 3
    /\ ts[1].type = "SquareBracketStart"
    /\ ts[Len(ts) - 1].type = "SquareBracketEnd"
    /\ ts[Len(ts)] = BlockEnd
    /\ \A i \in 2..(Len(ts) - 2) : IsPrimary(ts[i]) \/ ts[i].type = "Comma"

\* the leaves of the literals and variables of ts, in order
RECURSIVE Leaves(_)
Leaves(ts) ==
    IF ts = <<>> THEN <<>>
    ELSE IF IsPrimary(Head(ts)) THEN <<Leaf(Head(ts))>> \o Leaves(Tail(ts))
    ELSE Leaves(Tail(ts))

C8_ListConsumedThroughBracket ==
    (Parsed /\ IsListLiteral(tokens) /\ parsed.ok) =>
        /\ parsed.rest = <<BlockEnd>>
        /\ parsed.expr = ListExpr(Leaves(tokens))

C8_Witness ==
    /\ Parsed /\ IsListLiteral(tokens) /\ parsed.ok
    /\ Len(parsed.expr.terms) >= 2
    /\ parsed.rest = <<BlockEnd>>

(***************************************************************************)
(* C9.  Evaluating a list gives the list of the values of its terms, in    *)
(* order, and fails with the error of the first term that fails.           *)
(***************************************************************************)
Bound(t, c) == t.kind = "Constant" \/ t.name \in DOMAIN c

ValueOf(t, c) == IF t.kind = "Constant" THEN t.value ELSE c[t.name]

C9_ListInOrderFailFast ==
    (Evaluated /\ parsed.expr.node = "List") =>
        LET terms == parsed.expr.terms
            failing == {i \in 1..Len(terms) : ~Bound(terms[i], context)}
        IN IF failing = {}
           THEN value = OkValue(List([i \in 1..Len(terms) |-> ValueOf(terms[i], context)]))
           ELSE LET first == CHOOSE i \in failing : \A j \in failing : i <= j
                IN value = UndefinedVariable(terms[first].name)

C9_Witness ==
    /\ Evaluated /\ parsed.expr.node = "List"
    /\ Len(parsed.expr.terms) >= 2
    /\ \E i \in 1..Len(parsed.expr.terms) : parsed.expr.terms[i].kind = "Variable"
    /\ value.kind = "ok"
    /\ Len(value.value.items) = Len(parsed.expr.terms)
    /\ value.value.items[1] # value.value.items[2]

(***************************************************************************)
(* C10.  A variable that is absent from the context fails the whole        *)
(* evaluation, whatever encloses it: the result is never a value, also     *)
(* under And/Or when the other operand decides.  The result is an error    *)
(* unless an operator without evaluation semantics is in the tree, and     *)
(* the error is UndefinedVariable of an absent variable unless a unary     *)
(* sign is in the tree.                                                    *)
(***************************************************************************)
\* the names of the variable terms of a tree
RECURSIVE VariablesOf(_)
VariablesOf(e) ==
    CASE e.node = "Term" -> IF e.kind = "Variable" THEN {e.name} ELSE {}
      [] e.node = "Binary" -> VariablesOf(e.left) \cup VariablesOf(e.right)
      [] e.node = "Unary" -> VariablesOf(e.operand)
      [] OTHER -> UNION {VariablesOf(e.terms[i]) : i \in 1..Len(e.terms)}

\* the operators of the Binary and Unary nodes of a tree
RECURSIVE BinaryOpsOf(_), UnaryOpsOf(_)
BinaryOpsOf(e) ==
    CASE e.node = "Binary" -> {e.op} \cup BinaryOpsOf(e.left) \cup BinaryOpsOf(e.right)
      [] e.node = "Unary" -> BinaryOpsOf(e.operand)
      [] OTHER -> {}

UnaryOpsOf(e) ==
    CASE e.node = "Binary" -> UnaryOpsOf(e.left) \cup UnaryOpsOf(e.right)
      [] e.node = "Unary" -> {e.op} \cup UnaryOpsOf(e.operand)
      [] OTHER -> {}

Absent(e, c) == VariablesOf(e) \ DOMAIN c

\* the operators evaluate_binary has an arm for
Evaluable == {"Equals", "NotEquals", "LessThan", "LessEqualThan", "GreaterThan",
              "GreaterEqualThan", "And", "Or"}

Applied(op) == op \in DOMAIN results

IsBoolean(r) == r.kind = "ok" /\ r.value \in {Boolean(TRUE), Boolean(FALSE)}

C12_EqualsNotEqualsComplementary ==
    (Applied("Equals") /\ Applied("NotEquals")
        /\ operands[1].variant = operands[2].variant) =>
        /\ IsBoolean(results["Equals"])
        /\ IsBoolean(results["NotEquals"])
        /\ (results["Equals"].value = Boolean(TRUE))
               # (results["NotEquals"].value = Boolean(TRUE))

\* two unlike strings: NotEquals alone holds
C12_Witness ==
    /\ Applied("Equals") /\ Applied("NotEquals")
    /\ operands = <<String(""), String("hello")>>
    /\ results["Equals"] = OkValue(Boolean(FALSE))
    /\ results["NotEquals"] = OkValue(Boolean(TRUE))

(***************************************************************************)
(* C13.  And and Or combine the truthiness of the operands and nothing     *)
(* else: the result is Boolean(truthy(l) and truthy(r)), respectively      *)
(* Boolean(truthy(l) or truthy(r)), never an error; `1 && 1` is            *)
(* Boolean(true) and `1 == 2` is Boolean(false).                           *)
(***************************************************************************)
C13_AndOrCombineTruthiness ==
    /\ Applied("And") =>
          results["And"] = OkValue(Boolean(truthy(operands[1]) /\ truthy(operands[2])))
    /\ Applied("Or") =>
          results["Or"] = OkValue(Boolean(truthy(operands[1]) \/ truthy(operands[2])))
    /\ (Applied("And") /\ operands = <<Integer(1), Integer(1)>>) =>
          results["And"] = OkValue(Boolean(TRUE))
    /\ (Applied("Equals") /\ operands = <<Integer(1), Integer(2)>>) =>
          results["Equals"] = OkValue(Boolean(FALSE))

\* a truthy left operand and a falsy right operand of unlike variants
C13_Witness ==
    /\ Applied("And") /\ Applied("Or")
    /\ operands = <<Integer(1), String("")>>
    /\ results["And"] = OkValue(Boolean(FALSE))
    /\ results["Or"] = OkValue(Boolean(TRUE))

(***************************************************************************)
(* C14.  An ordering comparison between values of unlike variants, such as *)
(* a List and a Boolean, is a type error and not a Boolean.                *)
(***************************************************************************)
Ordering == {"LessThan", "LessEqualThan", "GreaterThan", "GreaterEqualThan"}

Numeric == {"Integer", "Float"}

\* unlike variants, not both numbers
Incompatible(l, r) ==
    l.variant # r.variant /\ ~(l.variant \in Numeric /\ r.variant \in Numeric)

C14_OrderingOfUnlikeVariantsIsTypeError ==
    \A op \in Ordering :
        (Applied(op) /\ Incompatible(operands[1], operands[2])) =>
            results[op] = TypeError

(***************************************************************************)
(* C15.  Op::evaluate_binary is total: for every operator, the arithmetic  *)
(* ones included, and every pair of values it returns a value or an        *)
(* error; no combination crashes.                                          *)
(***************************************************************************)
C15_EvaluateBinaryTotal ==
    \A op \in Ops : Applied(op) => results[op].kind \in {"ok", "err"}


(***************************************************************************)
(* C16.  Op::from_token maps every operator token to its Op and every      *)
(* other token to None: Some(op) for `&&`, `||`, the six comparisons and   *)
(* the five arithmetic operators, None for values, variables, brackets,    *)
(* commas and block delimiters; so parse goes on past an arithmetic        *)
(* operator: `a + b %>` parses to Binary(a, Add, b).                       *)
(***************************************************************************)
OperatorOf(token) ==
    CASE token.type = "And" -> "And"
      [] token.type = "Or" -> "Or"
      [] token.type = "Equals" -> "Equals"
      [] token.type = "NotEquals" -> "NotEquals"
      [] token.type = "GreaterThan" -> "GreaterThan"
      [] token.type = "GreaterEqualThan" -> "GreaterEqualThan"
      [] token.type = "LessThan" -> "LessThan"
      [] token.type = "LessEqualThan" -> "LessEqualThan"
      [] token.type = "Plus" -> "Add"
      [] token.type = "Minus" -> "Sub"
      [] token.type = "Mult" -> "Mult"
      [] token.type = "Div" -> "Div"
      [] token.type = "Mod" -> "Mod"
      [] OTHER -> None

Arithmetic == {"Plus", "Minus", "Mult", "Div", "Mod"}

\* a op b %>, op an arithmetic operator
IsArithmeticPair(ts) ==
    /\ Len(ts) = 4
    /\ IsPrimary(ts[1]) /\ ts[2].type \in Arithmetic /\ IsPrimary(ts[3])
    /\ ts[4] = BlockEnd

C16_FromTokenMapsEveryOperator ==
    /\ Parsed =>
          \A i \in 1..Len(tokens) :
              tokens[i].type # "Not" => from_token(tokens[i]) = OperatorOf(tokens[i])
    /\ (Parsed /\ IsArithmeticPair(tokens)) =>
          parsed = Ok(Binary(Leaf(tokens[1]), OperatorOf(tokens[2]), Leaf(tokens[3])),
                      <<BlockEnd>>)

(***************************************************************************)
(* C19.  Not is unary only in the trees of parse: no Binary node has the   *)
(* operator Not, and a `!` where a binary operator is expected, as in      *)
(* `a ! b`, is a syntax error.                                             *)
(***************************************************************************)
\* a ! b %>
IsNotBetween(ts) ==
    /\ Len(ts) = 4
    /\ IsPrimary(ts[1]) /\ ts[2].type = "Not" /\ IsPrimary(ts[3])
    /\ ts[4] = BlockEnd

C19_NotIsUnaryOnly ==
    /\ (Parsed /\ parsed.ok) => \A op \in BinaryOpsOf(parsed.expr) : binary(op)
    /\ (Parsed /\ IsNotBetween(tokens)) => parsed = ExpressionSyntax(tokens[2])


(***************************************************************************)
(* C17.  Secure id round trip: decrypt_number(encrypt_number(n)) is Ok(n), *)
(* and for a string that is not the encoding (odd length, fewer than 12    *)
(* bytes, characters that are not hexadecimal, failed authentication)      *)
(* decrypt_number returns Err and does not panic.                          *)
(***************************************************************************)
C17_SecureIdRoundTrip ==
    cpc = "decrypted" =>
        IF input = secure_id
        THEN decrypted = OkNumber(number)
        ELSE decrypted.kind = "err"

(***************************************************************************)
(* C18.  Response::from_request makes sure a session cookie is set on      *)
(* every response: whatever the session of the response (set or not) and   *)
(* of the request (absent, valid or expired), the returned response        *)
(* carries a session and a session cookie for it.                          *)
(***************************************************************************)
C18_SessionCookieOnEveryResponse ==
    rpc = "returned" /\ returned.kind = "ok" =>
        /\ returned.response.session.some
        /\ SessionCookie(returned.response.session) \in returned.response.cookies

(***************************************************************************)
(* C20.  On one connection every request that was read got exactly one     *)
(* response: the response of a handler whose path matches it, or 404 Not   *)
(* Found when no handler matches.                                          *)
(***************************************************************************)
ResponsesTo(i) == SelectSeq(sent, LAMBDA r : r.request = i)

Matching(i) == {h \in 1..Len(handlers) : matches(stream[i], handlers[h])}

C20_ExactlyOneResponsePerRequest ==
    \A i \in 1..served :
        /\ Len(ResponsesTo(i)) = 1
        /\ IF Matching(i) = {}
           THEN ResponsesTo(i)[1] = not_found(i)
           ELSE ResponsesTo(i)[1].handler \in Matching(i)


====
